---- MODULE Spec2Model ----
(***************************************************************************)
(* Model of scripts/db_restore-sqlite2prod.py: the one-shot migration      *)
(* pipeline  authenticate -> read local data (database, JSON fallback) ->  *)
(* filter default data -> confirmation prompt -> chunked upload -> exit.   *)
(*                                                                         *)
(* The model starts at the call of main() (line 490), with the module      *)
(* constants of lines 38-98 in place; the load-time lookups of lines 58-59 *)
(* (UID, PASSWORD) are not part of it.  Python values are                  *)
(* modelled as follows: a dict is a function whose DOMAIN is its key set,  *)
(* a list is a sequence, None (also the result of dict.get on a missing    *)
(* key) is the string None, an uncaught exception is pc = "crashed" with   *)
(* the interpreter's exit status 1.                                        *)
(***************************************************************************)
EXTENDS Integers, Sequences, FiniteSets, TLC

VARIABLES
    pc,               \* position in main()
    default_users,    \* DEFAULT_DATA['users'] as built at module load
    auth_answer,      \* what the authentication endpoint answered
    cookies,          \* main: cookies returned by authenticate
    error,            \* main: error, the error value of the last step
    db_failed,        \* read_local_data_from_db returned an error in this run
    json_doc,         \* the document read_local_data found (kind "untried" before)
    local_data,       \* the category mapping as returned by the reader
    all_data,         \* main: all_data (re-bound by the filter)
    line,             \* the raw line typed at the prompt
    response,         \* main: input().strip().lower()
    idx,              \* import_all_data: position in IMPORT_ENDPOINTS
    results,          \* import_all_data: results
    total_imported,   \* import_all_data: total_imported
    total_failed,     \* import_all_data: total_failed
    failed_endpoints, \* import_all_data: failed_endpoints
    posted,           \* the POST requests sent to import endpoints, in order
    answers,          \* what the remote side answered to each category
    success,          \* import_all_data's first return value (FALSE before it returns)
    raised,           \* the uncaught exception that ended the run (None if none)
    exit_code         \* process exit status (Running until the process ends)

vars == <<pc, default_users, auth_answer, cookies, error, db_failed, json_doc, local_data,
          all_data, line, response, idx, results, total_imported, total_failed,
          failed_endpoints, posted, answers, success, raised, exit_code>>

None == "None"
EmptyDict == [k \in {} |-> 0]
\* an error value of None (falsy, like the empty mapping that stands for it)
NoError == EmptyDict
\* no line read yet
NoLine == << None >>
\* exit status of a process that is still running
Running == -1

(***************************************************************************)
(* Bounds of the model.                                                    *)
(***************************************************************************)
\* total number of records in an input of the filter-only specification
MaxRecords == 2
\* number of non-empty categories in the data read by main
MaxNonEmpty == 2

(***************************************************************************)
(* Module constants, lines 38-98.                                          *)
(***************************************************************************)
\* IMPORT_ENDPOINTS with 'users' moved behind the categories that reference it
IMPORT_ENDPOINTS_users_late ==
    << "sections", "topics", "microblogs", "posts", "classrooms", "users",
       "feedback", "study", "personas", "user_personas" >>

\* dict order of IMPORT_ENDPOINTS (lines 44-55)
IMPORT_ENDPOINTS ==
    << "sections", "users", "topics", "microblogs", "posts",
       "classrooms", "feedback", "study", "personas", "user_personas" >>

Categories == { IMPORT_ENDPOINTS[i] : i \in 1..Len(IMPORT_ENDPOINTS) }

\* DEFAULT_DATA['users']: the list built when `from main import app` works
\* (with the config defaults) and the list of the except branch.
DEFAULT_DATA_users == { {"admin", "user", "niko"},
                        {"admin", "user", "niko", "toby", "hop"} }

DEFAULT_DATA_sections == {"CSA", "CSP", "Robotics", "CSSE"}

DEFAULT_DATA_topics ==
    { "/lessons/flask-introduction", "/hacks/javascript-basics",
      "/projects/portfolio-showcase", "/general/daily-standup",
      "/resources/study-materials" }

\* timeout= of the import requests (line 356)
TIMEOUT == 120

(***************************************************************************)
(* Python helpers.                                                         *)
(***************************************************************************)
\* truth value of a str-or-None
Truthy(v) == v # None /\ v # ""

\* d.get(k, default)
Get(d, k, default) == IF k \in DOMAIN d THEN d[k] ELSE default

\* str.lower() on the characters of the prompt alphabet
LowerChar(c) == CASE c = "Y" -> "y"
                  [] c = "E" -> "e"
                  [] c = "S" -> "s"
                  [] c = "N" -> "n"
                  [] OTHER -> c

\* the prompt without .lower()
lower_missing(s) == s

lower(s) == [i \in 1..Len(s) |-> LowerChar(s[i])]

IsSpace(c) == c = " "

RECURSIVE lstrip(_)
lstrip(s) == IF s # <<>> /\ IsSpace(Head(s)) THEN lstrip(Tail(s)) ELSE s

RECURSIVE rstrip(_)
rstrip(s) == IF s # <<>> /\ IsSpace(s[Len(s)])
             THEN rstrip(SubSeq(s, 1, Len(s) - 1)) ELSE s

strip(s) == rstrip(lstrip(s))

(***************************************************************************)
(* filter_default_data, lines 253-321.                                     *)
(* A user record is [uid]; a section [abbreviation]; a topic               *)
(* [pagePath, page_path] (None = key missing); a microblog or post         *)
(* [userUid, user] with user = [kind, uid], kind "absent" (no 'user' key), *)
(* "other" (a value that is not a mapping) or "dict".                      *)
(***************************************************************************)
\* is_default_user that also takes an unknown uid for a default user
is_default_user_or_unknown(uid, DU) == uid \in DU \/ uid = None

is_default_user(uid, DU) == uid \in DU

is_default_section(abbreviation) == abbreviation \in DEFAULT_DATA_sections

is_default_topic(page_path) == page_path \in DEFAULT_DATA_topics

\* m.get('user', {}).get('uid') where that expression does not raise
NestedUid(r) == IF r.user.kind = "dict" THEN r.user.uid ELSE None

\* line 299: m.get('userUid') or m.get('user', {}).get('uid')
MicroblogUid(m) == IF Truthy(m.userUid) THEN m.userUid ELSE NestedUid(m)

\* line 299 raises AttributeError: the right operand of `or` is evaluated on
\* a 'user' value that has no .get
MicroblogRaises(m) == ~Truthy(m.userUid) /\ m.user.kind = "other"

\* line 310: p.get('user', {}).get('uid') if isinstance(p.get('user'), dict) else None
PostUid(p) == IF p.user.kind = "dict" THEN p.user.uid ELSE None

\* lines 288-289
TopicPath(t, page_path_key) ==
    LET first == IF page_path_key = "pagePath" THEN t.pagePath ELSE t.page_path
    IN  IF Truthy(first) THEN first ELSE t.page_path

KeepUser(u, DU) == ~is_default_user(u.uid, DU)
KeepMicroblog(m, DU) == ~is_default_user(MicroblogUid(m), DU)
KeepPost(p, DU) == ~is_default_user(PostUid(p), DU)

\* The value of filter_default_data(d) with DEFAULT_DATA['users'] = DU:
\* [raised |-> TRUE] when the call raises, else the returned mapping.
filter_default_data(d, DU) ==
    LET users      == Get(d, "users", <<>>)
        sections   == Get(d, "sections", <<>>)
        topics     == Get(d, "topics", <<>>)
        microblogs == Get(d, "microblogs", <<>>)
        posts      == Get(d, "posts", <<>>)
        keepU(u)   == KeepUser(u, DU)
        keepS(s)   == ~is_default_section(s.abbreviation)
        key        == IF topics # <<>> /\ topics[1].pagePath # None
                      THEN "pagePath" ELSE "page_path"
        keepT(t)   == ~is_default_topic(TopicPath(t, key))
        keepM(m)   == KeepMicroblog(m, DU)
        keepP(p)   == KeepPost(p, DU)
        fUsers     == IF users # <<>>
                      THEN "users" :> SelectSeq(users, keepU) ELSE EmptyDict
        fSections  == IF sections # <<>>
                      THEN "sections" :> SelectSeq(sections, keepS) ELSE EmptyDict
        fTopics    == IF topics # <<>>
                      THEN "topics" :> SelectSeq(topics, keepT) ELSE EmptyDict
        fMicro     == IF microblogs # <<>>
                      THEN "microblogs" :> SelectSeq(microblogs, keepM) ELSE EmptyDict
        fPosts     == IF posts # <<>>
                      THEN "posts" :> SelectSeq(posts, keepP) ELSE EmptyDict
        raises     == \E i \in 1..Len(microblogs) : MicroblogRaises(microblogs[i])
    IN  IF raises
        THEN [raised |-> TRUE, value |-> EmptyDict]
        ELSE [raised |-> FALSE,
              \* lines 317-319: keys not yet in filtered are copied unchanged
              value  |-> fUsers @@ fSections @@ fTopics @@ fMicro @@ fPosts @@ d]

(***************************************************************************)
(* Inputs: the records the local store can hold and what the environment   *)
(* (remote service, file system, operator) can answer.                     *)
(***************************************************************************)
Uids == {"admin", "toby", "alice"}

UserRecs == [uid : Uids \cup {None}]

UserVals == { [kind |-> "absent", uid |-> None], [kind |-> "other", uid |-> None] }
            \cup [kind : {"dict"}, uid : Uids \cup {None}]

\* microblog and post records
BlogRecs == [userUid : Uids \cup {"", None}, user : UserVals]

Splits == { s \in (0..MaxRecords) \X (0..MaxRecords) \X (0..MaxRecords) :
                s[1] + s[2] + s[3] <= MaxRecords }

\* an input of the filter: the three categories whose author is filtered
FilterInput(u, m, p) == ("users" :> u) @@ ("microblogs" :> m) @@ ("posts" :> p)

Blog(userUid, kind, uid) == [userUid |-> userUid, user |-> [kind |-> kind, uid |-> uid]]

\* the record lists a category holds in the runs of main
Samples(c) ==
    CASE c = "sections" ->
           { << [abbreviation |-> "CSA"] >>,
             << [abbreviation |-> "CSA"], [abbreviation |-> "MATH"] >> }
      [] c = "users" ->
           { << [uid |-> "admin"], [uid |-> "alice"] >> }
      [] c = "topics" ->
           { << [pagePath |-> None, page_path |-> "/general/daily-standup"],
                [pagePath |-> "/custom/topic", page_path |-> None] >> }
      [] c = "microblogs" ->
           { << Blog("admin", "absent", None), Blog("alice", "absent", None) >>,
             << Blog(None, "other", None) >> }
      [] c = "posts" ->
           { << Blog("alice", "dict", "admin"), Blog("admin", "absent", None) >> }
      [] c \in {"classrooms", "user_personas"} ->
           { << [id |-> 1], [id |-> 2] >> }
      [] OTHER ->
           { << [id |-> 1] >> }

NonEmptySets == { S \in SUBSET Categories : Cardinality(S) <= MaxNonEmpty }

\* mappings with the key set S, each key holding one of its samples
SampleDicts(S) == { d \in [S -> UNION { Samples(c) : c \in S }] :
                        \A c \in S : d[c] \in Samples(c) }

\* read_local_data_from_db returns all ten keys, empty lists included
DbData == { d @@ [c \in Categories |-> <<>>] :
                d \in UNION { SampleDicts(S) : S \in NonEmptySets } }

\* key sets of the mapping documents: no key, or one category
JsonKeySets == { S \in SUBSET Categories : Cardinality(S) <= 1 }

\* the documents instance/data.json can hold
JsonDocs ==
    { [kind |-> "missing", data |-> EmptyDict],
      [kind |-> "invalid", data |-> EmptyDict],
      [kind |-> "scalar",  data |-> EmptyDict] }
    \cup [kind : {"list"}, data : {<<>>} \cup Samples("users")]
    \cup [kind : {"dict"}, data : UNION { SampleDicts(S) : S \in JsonKeySets }]

AuthStatuses == {200, 304, 401, 500}

\* lines typed at the prompt
Lines == { <<"y">>, <<"Y">>, <<" ", "y">>, <<"y", "e", "s">>, <<"Y", "E", "S">>,
           <<"n">>, <<>>, <<" ">> }

(***************************************************************************)
(* What an import endpoint can answer to a request carrying n records.     *)
(* kind "response": an HTTP response with a status and a body; the body is *)
(* "object" (a JSON object, stats = its entry for the category), "array"   *)
(* (JSON, but not an object), "invalid" (not JSON) or "none".              *)
(* kind "timeout" / "connection": the request raised.                      *)
(***************************************************************************)
Errors(k) == [i \in 1..k |-> "error"]

Stats(imported, failed) ==
    [imported |-> imported, failed |-> failed, errors |-> Errors(failed)]

Answer(kind, status, body, stats) ==
    [kind |-> kind, status |-> status, body |-> body, stats |-> stats]

ImportAnswers(n) ==
    { Answer("response", 200, "object", Stats(n, 0)),
      Answer("response", 200, "object", Stats(n - 1, 1)),
      Answer("response", 200, "invalid", EmptyDict),
      Answer("response", 200, "array", EmptyDict),
      Answer("response", 201, "object", Stats(n, 0)),
      Answer("response", 204, "none", EmptyDict),
      Answer("response", 500, "none", EmptyDict),
      Answer("timeout", 0, "none", EmptyDict),
      Answer("connection", 0, "none", EmptyDict) }

\* response.json() on a body that is not JSON raises an exception that is a
\* requests.RequestException in requests >= 2.27 and a plain ValueError before
JsonErrorClasses == {"RequestException", "ValueError"}

(***************************************************************************)
(* The run.                                                                *)
(***************************************************************************)
Init ==
    /\ pc = "auth"
    /\ default_users \in DEFAULT_DATA_users
    /\ auth_answer = [kind |-> "none", status |-> 0]
    /\ cookies = None
    /\ error = NoError
    /\ db_failed = FALSE
    /\ json_doc = [kind |-> "untried", data |-> EmptyDict]
    /\ local_data = EmptyDict
    /\ all_data = EmptyDict
    /\ line = NoLine
    /\ response = NoLine
    /\ idx = 0
    /\ results = EmptyDict
    /\ total_imported = 0
    /\ total_failed = 0
    /\ failed_endpoints = <<>>
    /\ posted = <<>>
    /\ answers = EmptyDict
    /\ success = FALSE
    /\ raised = None
    /\ exit_code = Running

\* an exception nobody catches: traceback, exit status 1
Crash(exception) ==
    /\ pc' = "crashed"
    /\ raised' = exception
    /\ exit_code' = 1

\* main returns code; sys.exit(main())
Return(code) ==
    /\ pc' = "done"
    /\ exit_code' = code
    /\ raised' = raised

Goto(label) ==
    /\ pc' = label
    /\ exit_code' = exit_code
    /\ raised' = raised

\* Response.raise_for_status(): raises HTTPError for 4xx and 5xx
raise_for_status(status) == 400 <= status /\ status < 600

\* lines 101-121 and 415-419, the request got a response
AuthenticateResponse ==
    /\ pc = "auth"
    /\ \E status \in AuthStatuses :
          /\ auth_answer' = [kind |-> "response", status |-> status]
          /\ IF raise_for_status(status)
                THEN /\ error' = [message |-> "Failed to authenticate",
                                  code |-> status, error |-> "HTTPError"]
                     /\ cookies' = None
                     /\ Return(1)
                ELSE /\ error' = NoError
                     /\ cookies' = "session cookies"
                     /\ Goto("read")
    /\ UNCHANGED <<default_users, db_failed, json_doc, local_data, all_data,
                   line, response, idx, results, total_imported, total_failed,
                   failed_endpoints, posted, answers, success>>

\* lines 112, 116-121: requests.post raised, so `response` was never bound and
\* getattr(response, 'status_code', 0) raises UnboundLocalError in the handler
AuthenticateNoResponse ==
    /\ pc = "auth"
    /\ auth_answer' = [kind |-> "no response", status |-> 0]
    /\ Crash("UnboundLocalError")
    /\ UNCHANGED <<default_users, cookies, error, db_failed, json_doc,
                   local_data, all_data, line, response, idx, results,
                   total_imported, total_failed, failed_endpoints, posted,
                   answers, success>>

\* main giving up as soon as the database read fails
ReadDb_no_fallback ==
    /\ pc = "read"
    /\ \/ /\ \E d \in DbData : local_data' = d /\ all_data' = d
          /\ error' = NoError
          /\ db_failed' = FALSE
          /\ Goto("filter")
       \/ /\ error' = [message |-> "Failed to read from database"]
          /\ db_failed' = TRUE
          /\ Return(1)
          /\ UNCHANGED <<local_data, all_data>>
    /\ UNCHANGED <<default_users, auth_answer, cookies, json_doc, line, response,
                   idx, results, total_imported, total_failed, failed_endpoints,
                   posted, answers, success>>

\* lines 124-231 and 423-426
ReadDb ==
    /\ pc = "read"
    /\ \/ /\ \E d \in DbData : local_data' = d /\ all_data' = d
          /\ error' = NoError
          /\ db_failed' = FALSE
          /\ Goto("filter")
       \/ /\ error' = [message |-> "Failed to read from database"]
          /\ db_failed' = TRUE
          /\ Goto("fallback")
          /\ UNCHANGED <<local_data, all_data>>
    /\ UNCHANGED <<default_users, auth_answer, cookies, json_doc, line, response, idx,
                   results, total_imported, total_failed, failed_endpoints,
                   posted, answers, success>>

\* lines 234-250 and 427-430
ReadJson ==
    /\ pc = "fallback"
    /\ \E doc \in JsonDocs :
          /\ json_doc' = doc
          /\ CASE doc.kind = "missing" ->
                 /\ error' = [message |-> "JSON file not found"]
                 /\ Return(1)
                 /\ UNCHANGED <<local_data, all_data>>
            [] doc.kind = "invalid" ->
                 \* json.load raises, nothing catches it
                 /\ Crash("JSONDecodeError")
                 /\ UNCHANGED <<local_data, all_data, error>>
            [] doc.kind = "list" ->
                 /\ error' = NoError
                 /\ local_data' = ("users" :> doc.data)
                 /\ all_data' = ("users" :> doc.data)
                 /\ Goto("filter")
            [] doc.kind = "dict" ->
                 /\ error' = NoError
                 /\ local_data' = doc.data
                 /\ all_data' = doc.data
                 /\ Goto("filter")
            [] OTHER ->
                 /\ error' = [message |-> "Unknown data format in JSON file"]
                 /\ Return(1)
                 /\ UNCHANGED <<local_data, all_data>>
    /\ UNCHANGED <<default_users, auth_answer, cookies, db_failed, line, response, idx,
                   results, total_imported, total_failed, failed_endpoints,
                   posted, answers, success>>

\* line 441
Filter ==
    /\ pc = "filter"
    /\ LET r == filter_default_data(all_data, default_users)
       IN  IF r.raised
           THEN /\ Crash("AttributeError")
                /\ UNCHANGED all_data
           ELSE /\ all_data' = r.value
                /\ Goto("prompt")
    /\ UNCHANGED <<default_users, auth_answer, cookies, error, db_failed, json_doc,
                   local_data, line, response, idx, results, total_imported,
                   total_failed, failed_endpoints, posted, answers, success>>

\* lines 453-461 and 336-339: a line is read; on 'y' import_all_data starts
Prompt ==
    /\ pc = "prompt"
    /\ \E l \in Lines :
          /\ line' = l
          /\ response' = lower(strip(l))
          /\ IF response' # <<"y">>
             THEN Return(0) /\ idx' = idx
             ELSE Goto("upload") /\ idx' = 1
    /\ UNCHANGED <<default_users, auth_answer, cookies, error, db_failed, json_doc,
                   local_data, all_data, results, total_imported, total_failed,
                   failed_endpoints, posted, answers, success>>

\* line 453: input() at end of input raises EOFError
PromptEOF ==
    /\ pc = "prompt"
    /\ Crash("EOFError")
    /\ UNCHANGED <<default_users, auth_answer, cookies, error, db_failed, json_doc,
                   local_data, all_data, line, response, idx, results,
                   total_imported, total_failed, failed_endpoints, posted,
                   answers, success>>

data_type == IMPORT_ENDPOINTS[idx]

\* line 343
data_list == Get(all_data, data_type, <<>>)

\* an empty category reported as a failed endpoint instead of skipped
SkipCategory_reported ==
    /\ pc = "upload"
    /\ idx <= Len(IMPORT_ENDPOINTS)
    /\ data_list = <<>>
    /\ idx' = idx + 1
    /\ failed_endpoints' = Append(failed_endpoints, <<data_type, "no data">>)
    /\ UNCHANGED <<pc, default_users, auth_answer, cookies, error, db_failed,
                   json_doc, local_data, all_data, line, response, results,
                   total_imported, total_failed, posted, answers, success,
                   raised, exit_code>>

\* lines 341-348: a category without records is skipped
SkipCategory ==
    /\ pc = "upload"
    /\ idx <= Len(IMPORT_ENDPOINTS)
    /\ data_list = <<>>
    /\ idx' = idx + 1
    /\ UNCHANGED <<pc, default_users, auth_answer, cookies, error, db_failed, json_doc,
                   local_data, all_data, line, response, results,
                   total_imported, total_failed, failed_endpoints, posted,
                   answers, success, raised, exit_code>>

\* a failed category that ends the loop
EndpointFailed_stops(message) ==
    /\ failed_endpoints' = Append(failed_endpoints, <<data_type, message>>)
    /\ results' = (data_type :> [imported |-> 0, failed |-> Len(data_list),
                                 errors |-> <<message>>]) @@ results
    /\ total_failed' = total_failed + Len(data_list)
    /\ total_imported' = total_imported
    /\ idx' = Len(IMPORT_ENDPOINTS) + 1
    /\ Goto("upload")

\* a failed category that counts one failed record, whatever it holds
EndpointFailed_counts_one(message) ==
    /\ failed_endpoints' = Append(failed_endpoints, <<data_type, message>>)
    /\ results' = (data_type :> [imported |-> 0, failed |-> 1,
                                 errors |-> <<message>>]) @@ results
    /\ total_failed' = total_failed + 1
    /\ total_imported' = total_imported
    /\ idx' = idx + 1
    /\ Goto("upload")

\* lines 381-384, 387-390, 392-395: the category failed as a whole
EndpointFailed(message) ==
    /\ failed_endpoints' = Append(failed_endpoints, <<data_type, message>>)
    /\ results' = (data_type :> [imported |-> 0, failed |-> Len(data_list),
                                 errors |-> <<message>>]) @@ results
    /\ total_failed' = total_failed + Len(data_list)
    /\ total_imported' = total_imported
    /\ idx' = idx + 1
    /\ Goto("upload")

\* lines 358-379
StatsRecorded(stats) ==
    /\ results' = (data_type :> stats) @@ results
    /\ total_imported' = total_imported + Get(stats, "imported", 0)
    /\ total_failed' = total_failed + Get(stats, "failed", 0)
    /\ failed_endpoints' = failed_endpoints
    /\ idx' = idx + 1
    /\ Goto("upload")

ImportCrash(exception) ==
    /\ Crash(exception)
    /\ UNCHANGED <<results, total_imported, total_failed, failed_endpoints, idx>>

\* only 200 taken for a success
StatusOk_only_200(status) == status = 200

\* line 358
StatusOk(status) == status \in {200, 201}

\* lines 350-395: one request for a category that has records
UploadCategory ==
    /\ pc = "upload"
    /\ idx <= Len(IMPORT_ENDPOINTS)
    /\ data_list # <<>>
    /\ posted' = Append(posted, [data_type |-> data_type,
                                 payload |-> (data_type :> data_list),
                                 cookies |-> cookies, timeout |-> TIMEOUT])
    /\ \E a \in ImportAnswers(Len(data_list)) :
          /\ answers' = (data_type :> a) @@ answers
          /\ CASE a.kind = "timeout" -> EndpointFailed("Request timeout")
               [] a.kind = "connection" -> EndpointFailed("ConnectionError")
               [] a.kind = "response" /\ ~StatusOk(a.status) ->
                    EndpointFailed(<<"Status", a.status>>)
               [] a.kind = "response" /\ StatusOk(a.status) /\ a.body = "object" ->
                    StatsRecorded(a.stats)
               [] a.kind = "response" /\ StatusOk(a.status) /\ a.body = "array" ->
                    \* result.get on a list
                    ImportCrash("AttributeError")
               [] OTHER ->
                    \E class \in JsonErrorClasses :
                       IF class = "RequestException"
                       THEN EndpointFailed("JSONDecodeError")
                       ELSE ImportCrash("ValueError")
    /\ UNCHANGED <<default_users, auth_answer, cookies, error, db_failed, json_doc,
                   local_data, all_data, line, response, success>>

\* lines 397-405 and 461-486
FinishImport ==
    /\ pc = "upload"
    /\ idx = Len(IMPORT_ENDPOINTS) + 1
    /\ success' = (failed_endpoints = <<>>)
    /\ Return(IF success' THEN 0 ELSE 1)
    /\ UNCHANGED <<default_users, auth_answer, cookies, error, db_failed, json_doc,
                   local_data, all_data, line, response, idx, results,
                   total_imported, total_failed, failed_endpoints, posted,
                   answers>>

Next ==
    \/ AuthenticateNoResponse
    \/ AuthenticateResponse
    \/ ReadDb
    \/ ReadJson
    \/ Filter
    \/ Prompt
    \/ PromptEOF
    \/ SkipCategory
    \/ UploadCategory
    \/ FinishImport

Spec == Init /\ [][Next]_vars

(***************************************************************************)
(* filter_default_data on its own: main at line 441 with any input of the  *)
(* bounded record universe.                                                *)
(***************************************************************************)
FilterInit ==
    /\ pc = "filter"
    /\ default_users \in DEFAULT_DATA_users
    /\ auth_answer = [kind |-> "response", status |-> 200]
    /\ cookies = "session cookies"
    /\ error = NoError
    /\ db_failed = FALSE
    /\ json_doc = [kind |-> "untried", data |-> EmptyDict]
    /\ \E s \in Splits :
          \E u \in [1..s[1] -> UserRecs], m \in [1..s[2] -> BlogRecs],
             p \in [1..s[3] -> BlogRecs] :
             local_data = FilterInput(u, m, p)
    /\ all_data = local_data
    /\ line = NoLine
    /\ response = NoLine
    /\ idx = 0
    /\ results = EmptyDict
    /\ total_imported = 0
    /\ total_failed = 0
    /\ failed_endpoints = <<>>
    /\ posted = <<>>
    /\ answers = EmptyDict
    /\ success = FALSE
    /\ raised = None
    /\ exit_code = Running

FilterNext == Filter

FilterSpec == FilterInit /\ [][FilterNext]_vars

(***************************************************************************)
(* Vocabulary of the properties.                                           *)
(***************************************************************************)
Records(d, c) == Get(d, c, <<>>)

Range(seq) == { seq[i] : i \in 1..Len(seq) }

PostedTypes == { posted[i].data_type : i \in 1..Len(posted) }

PostCount(c) == Cardinality({ i \in 1..Len(posted) : posted[i].data_type = c })

FailedTypes == { failed_endpoints[i][1] : i \in 1..Len(failed_endpoints) }

\* main is past the prompt and inside or behind import_all_data
ImportStarted == idx >= 1

\* import_all_data has returned and main with it
ImportReturned == pc = "done" /\ idx = Len(IMPORT_ENDPOINTS) + 1

FilterReturned == pc = "prompt"

Is2xx(status) == 200 <= status /\ status < 300

\* the author of a microblog or post as the specification resolves it:
\* the denormalized field, failing that the nested user mapping
ResolvedAuthor(r) ==
    IF r.userUid # None /\ r.userUid # "" THEN r.userUid
    ELSE IF r.user.kind = "dict" THEN r.user.uid
    ELSE None

\* no 'userUid' field and no nested 'user' mapping with a 'uid'
Undetermined(r) ==
    r.userUid = None /\ (r.user.kind # "dict" \/ r.user.uid = None)

RECURSIVE SumFailed(_)
SumFailed(S) ==
    IF S = {} THEN 0
    ELSE LET c == CHOOSE x \in S : TRUE
         IN  Get(results[c], "failed", 0) + SumFailed(S \ {c})

(***************************************************************************)
(* C1.  For every input of filter_default_data: no user whose uid is in    *)
(* the default-user set is in the output 'users', and no microblog or post *)
(* whose resolvable author (userUid, failing that user.uid) is in the set  *)
(* is in the output 'microblogs' / 'posts'.                                *)
(* The code breaks it: a post is judged by its nested 'user' mapping only, *)
(* so a post that names a default user in 'userUid' stays.                 *)
(***************************************************************************)
C1_DefaultAuthorsRemoved ==
    FilterReturned =>
        /\ \A u \in Range(Records(all_data, "users")) : u.uid \notin default_users
        /\ \A c \in {"microblogs", "posts"} :
              \A r \in Range(Records(all_data, c)) :
                 ResolvedAuthor(r) \notin default_users

(***************************************************************************)
(* C5 as stated.  Every microblog and every post whose author uid cannot   *)
(* be determined is excluded from the filtered output.                     *)
(***************************************************************************)
C5_UndeterminedExcluded ==
    FilterReturned =>
        \A c \in {"microblogs", "posts"} :
           \A r \in Range(Records(all_data, c)) : ~Undetermined(r)

(***************************************************************************)
(* C5 as amended.  Whenever filter_default_data returns, the microblogs    *)
(* and the posts whose author uid cannot be determined are all in the      *)
(* output, in their input order.                                           *)
(***************************************************************************)
C5_UndeterminedKept ==
    FilterReturned =>
        \A c \in {"microblogs", "posts"} :
           SelectSeq(Records(all_data, c), Undetermined)
              = SelectSeq(Records(local_data, c), Undetermined)

C5_Witness ==
    /\ FilterReturned
    /\ \E r \in Range(Records(local_data, "microblogs")) : Undetermined(r)
    /\ \E r \in Range(Records(local_data, "posts")) : Undetermined(r)
    /\ Records(all_data, "posts") = Records(local_data, "posts")

(***************************************************************************)
(* C2 as stated.  Every line other than exactly 'y' aborts the run with    *)
(* exit code 0 and without an upload request.                              *)
(***************************************************************************)
C2_OnlyExactY ==
    (line # NoLine /\ line # <<"y">>) =>
        (pc = "done" /\ exit_code = 0 /\ posted = <<>>)

\* a single y or Y with nothing but blanks around it
IsYes(l) ==
    \E i \in 1..Len(l) :
       /\ l[i] \in {"y", "Y"}
       /\ \A j \in (1..Len(l)) \ {i} : l[j] = " "

(***************************************************************************)
(* C2 as amended.  A line that is not a single 'y' or 'Y' with optional    *)
(* surrounding blanks aborts the run with exit code 0 and no upload        *)
(* request is issued; exactly the lines that are one lets main reach       *)
(* import_all_data.                                                        *)
(***************************************************************************)
C2_ConfirmIsNormalised ==
    /\ (line # NoLine /\ ~IsYes(line)) =>
          (pc = "done" /\ exit_code = 0 /\ posted = <<>> /\ ~ImportStarted)
    /\ (line # NoLine /\ IsYes(line)) => ImportStarted
    /\ ImportStarted => IsYes(line)
    /\ posted # <<>> => IsYes(line)

C2_Witness ==
    /\ line = <<"Y">>
    /\ posted # <<>>

(***************************************************************************)
(* C3.  When the authentication request fails, by a network error or by a  *)
(* non-2xx response, authenticate returns an error value with the status   *)
(* code (0 when none is known), and main ends with exit code 1 having read *)
(* no local data and issued no upload request.                             *)
(* The code breaks it: without a response the except clause itself raises. *)
(***************************************************************************)
C3_AuthFailureReturnsError ==
    (\/ auth_answer.kind = "no response"
     \/ auth_answer.kind = "response" /\ ~Is2xx(auth_answer.status)) =>
        /\ pc = "done"
        /\ exit_code = 1
        /\ raised = None
        /\ "code" \in DOMAIN error
        /\ error.code = auth_answer.status
        /\ local_data = EmptyDict
        /\ posted = <<>>

(***************************************************************************)
(* C4 as stated.  When import_all_data returns, the result is success iff  *)
(* no category had a non-2xx status, a timeout or a transport error; a 2xx *)
(* response never puts its category on the failed-endpoint list.           *)
(***************************************************************************)
C4_2xxNeverFails ==
    /\ \A c \in DOMAIN answers :
          (answers[c].kind = "response" /\ Is2xx(answers[c].status))
             => c \notin FailedTypes
    /\ ImportReturned =>
          (success <=> \A c \in DOMAIN answers :
                          answers[c].kind = "response" /\ Is2xx(answers[c].status))

\* endpoint-level failure as the code draws the line
EndpointLevelFailure(a) ==
    \/ a.kind \in {"timeout", "connection"}
    \/ a.kind = "response" /\ a.status \notin {200, 201}
    \/ a.kind = "response" /\ a.status \in {200, 201} /\ a.body = "invalid"

(***************************************************************************)
(* C4 as amended.  When import_all_data returns, the result is success     *)
(* (and the exit code 0) iff no category had an endpoint-level failure: a  *)
(* status other than 200 and 201, a timeout, a transport error or a        *)
(* response body that is not JSON; a 200 or 201 response with a JSON       *)
(* object body never puts its category on the failed-endpoint list,        *)
(* whatever 'failed' count the body reports.                               *)
(***************************************************************************)
C4_SuccessIffNoEndpointFailure ==
    /\ \A c \in DOMAIN answers :
          (answers[c].kind = "response" /\ answers[c].status \in {200, 201}
              /\ answers[c].body = "object")
             => (c \notin FailedTypes /\ results[c] = answers[c].stats)
    /\ ImportReturned =>
          /\ success <=> \A c \in DOMAIN answers : ~EndpointLevelFailure(answers[c])
          /\ exit_code = IF success THEN 0 ELSE 1

C4_Witness ==
    /\ ImportReturned
    /\ success
    /\ exit_code = 0
    /\ total_failed > 0
    /\ \E c \in DOMAIN answers : answers[c].status = 201

(***************************************************************************)
(* C6.  The requests are issued in the fixed category order: a request for *)
(* 'sections' or 'users' precedes the request of every category that       *)
(* references them, 'topics' precedes 'microblogs', 'personas' precedes    *)
(* 'user_personas'; a category is requested only after each of its         *)
(* non-empty dependencies has been.                                        *)
(***************************************************************************)
Dependencies ==
    { <<"sections", "users">>,
      <<"sections", "microblogs">>, <<"sections", "posts">>,
      <<"sections", "classrooms">>, <<"sections", "study">>,
      <<"sections", "user_personas">>,
      <<"users", "microblogs">>, <<"users", "posts">>,
      <<"users", "classrooms">>, <<"users", "study">>,
      <<"users", "user_personas">>,
      <<"topics", "microblogs">>,
      <<"personas", "user_personas">> }

C6_DependenciesFirst ==
    \A dep \in Dependencies :
       \A j \in 1..Len(posted) :
          posted[j].data_type = dep[2] =>
             /\ \A i \in j..Len(posted) : posted[i].data_type # dep[1]
             /\ Records(all_data, dep[1]) # <<>> =>
                   \E i \in 1..(j - 1) : posted[i].data_type = dep[1]

C6_Witness ==
    /\ Len(posted) = 2
    /\ posted[1].data_type = "users"
    /\ posted[2].data_type = "microblogs"

(***************************************************************************)
(* C7.  A category whose record list is empty or missing gets no request,  *)
(* no entry in results, no entry in failed_endpoints, and adds nothing to  *)
(* total_failed.                                                           *)
(***************************************************************************)
C7_EmptySkipped ==
    ImportStarted =>
        /\ \A c \in Categories :
              Records(all_data, c) = <<>> =>
                 /\ c \notin PostedTypes
                 /\ c \notin DOMAIN results
                 /\ c \notin FailedTypes
        /\ total_failed = SumFailed(DOMAIN results)

C7_Witness ==
    /\ ImportReturned
    /\ \E c \in Categories : c \notin DOMAIN all_data
    /\ posted # <<>>
    /\ total_failed > 0

(***************************************************************************)
(* C8.  A non-2xx status for a category of N records makes import_all_data *)
(* record failed = N and imported = 0 for it and put it on the             *)
(* failed-endpoint list; import_all_data then returns failure and the      *)
(* process ends with exit code 1.                                          *)
(***************************************************************************)
C8_Non2xxFailsCategory ==
    \A c \in DOMAIN answers :
       (answers[c].kind = "response" /\ ~Is2xx(answers[c].status)) =>
          /\ results[c].failed = Len(all_data[c])
          /\ results[c].imported = 0
          /\ c \in FailedTypes
          /\ ImportReturned => (~success /\ exit_code = 1)
          /\ pc \in {"done", "crashed"} => exit_code = 1

C8_Witness ==
    /\ ImportReturned
    /\ \E c \in DOMAIN answers :
          /\ answers[c].status = 500
          /\ Len(all_data[c]) = 2
          /\ results[c].failed = 2

(***************************************************************************)
(* C9.  The database read never ends the run: when it fails the JSON read  *)
(* is attempted next.  The run ends at the read step, with exit code 1,    *)
(* only when the database read and the JSON read have both failed; when    *)
(* the JSON read succeeds main goes on to the filter with the document's   *)
(* data (a bare list standing for the users).                              *)
(***************************************************************************)
C9_FallbackBeforeAbort ==
    [][ /\ pc = "read" => pc' \in {"filter", "fallback"}
        /\ (pc = "read" /\ db_failed') => pc' = "fallback"
        /\ (pc = "fallback" /\ pc' \in {"done", "crashed"}) =>
              /\ db_failed
              /\ json_doc'.kind \in {"missing", "invalid", "scalar"}
              /\ exit_code' = 1
        /\ (pc = "fallback" /\ json_doc'.kind \in {"list", "dict"}) =>
              /\ pc' = "filter"
              /\ all_data' = IF json_doc'.kind = "list"
                             THEN [k \in {"users"} |-> json_doc'.data]
                             ELSE json_doc'.data
      ]_vars

C9_Witness ==
    /\ pc = "filter"
    /\ db_failed
    /\ json_doc.kind = "list"
    /\ all_data = [k \in {"users"} |-> json_doc.data]
    /\ json_doc.data # <<>>

(***************************************************************************)
(* C10.  Every category gets at most one POST request, and every non-empty *)
(* category the loop has passed got exactly one: an endpoint-level failure *)
(* is recorded once, is not retried and does not keep the loop from the    *)
(* categories behind it.                                                   *)
(***************************************************************************)
C10_OneRequestEach ==
    ImportStarted =>
        /\ Len(failed_endpoints) = Cardinality(FailedTypes)
        /\ \A k \in 1..Len(IMPORT_ENDPOINTS) :
              LET c == IMPORT_ENDPOINTS[k]
              IN  /\ PostCount(c) <= 1
                  /\ k < idx =>
                        PostCount(c) = IF Records(all_data, c) # <<>> THEN 1 ELSE 0
                  /\ (c \in DOMAIN answers /\ answers[c].kind # "response") =>
                        (c \in FailedTypes /\ k < idx)
                  /\ (c \in DOMAIN answers /\ answers[c].kind = "response"
                        /\ ~Is2xx(answers[c].status)) =>
                        (c \in FailedTypes /\ k < idx)

C10_Witness ==
    /\ ImportReturned
    /\ Len(posted) = 2
    /\ posted[1].data_type \in FailedTypes
    /\ posted[2].data_type \notin FailedTypes

====
